---- MODULE Spec2Model ----
(***************************************************************************)
(* octant.wvelocity.omegaHz: the grid-relative vertical velocity (times    *)
(* Hz) on an s-coordinate grid, as a vertical cumulative sum of the        *)
(* horizontal flux divergence.                                             *)
(*                                                                         *)
(* An n-dimensional array is a record [shape, data]: shape is the tuple of *)
(* axis lengths and data maps every 0-based index tuple to a number.  A    *)
(* Python scalar is the array of shape <<>>.  A call that raises is the    *)
(* record Raise(name) of its exception, which every later operation passes *)
(* on, as an exception unwinds the function; err = "" marks an array.      *)
(*                                                                         *)
(* Numbers are binary fixed point with one fractional bit: the integer n   *)
(* stands for n / One.  Every input is a whole number, so every product    *)
(* the function forms (with the literal 0.5 as the only fraction) is       *)
(* exact, as it is in floating point for values of this size.              *)
(***************************************************************************)
EXTENDS Integers, Sequences, FiniteSets, TLC

\* ------------------------------------------------------------------ bounds
MaxL == 2       \* vertical layers
MaxT == 2       \* time steps of a 4D input
MaxN == 4       \* horizontal extent (Ny, Nx)
MaxReshapes == 1  \* arguments the caller passes with another shape

\* ------------------------------------------------------------- fixed point
One == 2
Half == 1
Num(n) == n * One
FMul(x, y) == (x * y) \div One
FAdd(x, y) == x + y
FSub(x, y) == x - y

\* ------------------------------------------------------------------ arrays
Raise(e) == [err |-> e, shape |-> <<>>, data |-> <<>>]
IsErr(a) == a.err # ""
IsArr(a) == a.err = ""

Rank(a) == Len(a.shape)

RECURSIVE Indices(_)
Indices(s) ==
  IF s = <<>> THEN {<<>>}
  ELSE {<<i>> \o r : i \in 0..(s[1] - 1), r \in Indices(Tail(s))}

\* The array of shape s with the elements f, a function on Indices(s).
Arr(s, f) == [err |-> "", shape |-> s, data |-> f]

Scalar(x) == [err |-> "", shape |-> <<>>, data |-> [idx \in {<<>>} |-> x]]

Max(a, b) == IF a >= b THEN a ELSE b
Min(a, b) == IF a <= b THEN a ELSE b

\* A Python slice lo:hi over an axis of length n; hi = 0 stands for an
\* omitted stop, a negative hi counts from the end.
SliceStart(n, sl) == Min(sl.lo, n)
SliceLen(n, sl) == Max(0, (IF sl.hi = 0 THEN n ELSE n + sl.hi) - SliceStart(n, sl))

All == [lo |-> 0, hi |-> 0]          \* :
Inner_open == [lo |-> 1, hi |-> 0]     \* 1: written for 1:-1
Inner == [lo |-> 1, hi |-> -1]       \* 1:-1
DropLast == [lo |-> 0, hi |-> -1]    \* :-1
DropFirst == [lo |-> 1, hi |-> 0]    \* 1:

\* a[..., sa, sb] when ellipsis, a[sa, sb] otherwise: the two slices apply
\* to the last two axes, or to the first two.
Subscript(a, ellipsis, sa, sb) ==
  IF IsErr(a) THEN a
  ELSE IF Rank(a) < 2 THEN Raise("IndexError")
  ELSE LET r == Rank(a)
           pa == IF ellipsis THEN r - 1 ELSE 1
           pb == pa + 1
           sl(d) == IF d = pa THEN sa ELSE IF d = pb THEN sb ELSE All
           ns == [d \in 1..r |-> SliceLen(a.shape[d], sl(d))]
           src(idx) == [d \in 1..r |-> idx[d] + SliceStart(a.shape[d], sl(d))]
       IN Arr(ns, [idx \in Indices(ns) |-> a.data[src(idx)]])

\* numpy broadcasting: shapes are aligned at the last axis; two lengths agree
\* when they are equal or one of them is 1.
DimAt(s, r, d) == IF d + Len(s) - r >= 1 THEN s[d + Len(s) - r] ELSE 1

BroadcastOK(s1, s2) ==
  LET r == Max(Len(s1), Len(s2))
  IN \A d \in 1..r : \/ DimAt(s1, r, d) = DimAt(s2, r, d)
                     \/ DimAt(s1, r, d) = 1
                     \/ DimAt(s2, r, d) = 1

BroadcastShape(s1, s2) ==
  LET r == Max(Len(s1), Len(s2))
  IN [d \in 1..r |-> IF DimAt(s1, r, d) = 1 THEN DimAt(s2, r, d) ELSE DimAt(s1, r, d)]

\* The element of a that takes part in the result's element idx.
Project(a, idx) ==
  LET r == Len(idx)
      k == Rank(a)
  IN a.data[[d \in 1..k |-> IF a.shape[d] = 1 THEN 0 ELSE idx[d + r - k]]]

Apply(op, x, y) ==
  CASE op = "*" -> FMul(x, y)
    [] op = "+" -> FAdd(x, y)
    [] op = "-" -> FSub(x, y)

Elementwise(op, a, b) ==
  IF IsErr(a) THEN a
  ELSE IF IsErr(b) THEN b
  ELSE IF ~BroadcastOK(a.shape, b.shape) THEN Raise("ValueError")
  ELSE Arr(BroadcastShape(a.shape, b.shape),
           [idx \in Indices(BroadcastShape(a.shape, b.shape)) |-> Apply(op, Project(a, idx), Project(b, idx))])

Times(a, b) == Elementwise("*", a, b)
Plus(a, b) == Elementwise("+", a, b)
Minus(a, b) == Elementwise("-", a, b)
Negate(a) == IF IsErr(a) THEN a ELSE Arr(a.shape, [idx \in Indices(a.shape) |-> 0 - a.data[idx]])

\* The position (1-based) of a numpy axis: a negative axis counts from the
\* end, axis = -1 is the last axis.
AxisPos(a, axis) == IF axis < 0 THEN Rank(a) + 1 + axis ELSE axis + 1

\* The difference taken backwards: out[i] = a[i] - a[i+1].
diff_backward(a, axis) ==
  IF IsErr(a) THEN a
  ELSE IF AxisPos(a, axis) \notin 1..Rank(a) THEN Raise("AxisError")
  ELSE LET p == AxisPos(a, axis)
           ns == [a.shape EXCEPT ![p] = Max(0, @ - 1)]
       IN Arr(ns, [idx \in Indices(ns) |-> a.data[idx] - a.data[[idx EXCEPT ![p] = @ + 1]]])

\* np.diff(a, axis=axis): out[i] = a[i+1] - a[i] along the axis.
diff(a, axis) ==
  IF IsErr(a) THEN a
  ELSE IF AxisPos(a, axis) \notin 1..Rank(a) THEN Raise("AxisError")
  ELSE LET p == AxisPos(a, axis)
           ns == [a.shape EXCEPT ![p] = Max(0, @ - 1)]
       IN Arr(ns, [idx \in Indices(ns) |-> a.data[[idx EXCEPT ![p] = @ + 1]] - a.data[idx]])

RECURSIVE RunningSum(_, _, _)
RunningSum(a, idx, p) ==
  IF idx[p] = 0 THEN a.data[idx]
  ELSE RunningSum(a, [idx EXCEPT ![p] = @ - 1], p) + a.data[idx]

\* np.sum written for np.cumsum: the axis is summed away.
cumsum_total(a, axis) ==
  IF IsErr(a) THEN a
  ELSE IF AxisPos(a, axis) \notin 1..Rank(a) THEN Raise("AxisError")
  ELSE LET p == AxisPos(a, axis)
           ns == SubSeq(a.shape, 1, p - 1) \o SubSeq(a.shape, p + 1, Rank(a))
           top(idx) == SubSeq(idx, 1, p - 1) \o <<a.shape[p] - 1>> \o SubSeq(idx, p, Len(idx))
       IN Arr(ns, [idx \in Indices(ns) |-> RunningSum(a, top(idx), p)])

\* np.cumsum(a, axis=axis): out[k] = a[0] + ... + a[k] along the axis.
cumsum(a, axis) ==
  IF IsErr(a) THEN a
  ELSE IF AxisPos(a, axis) \notin 1..Rank(a) THEN Raise("AxisError")
  ELSE Arr(a.shape, [idx \in Indices(a.shape) |-> RunningSum(a, idx, AxisPos(a, axis))])

\* ----------------------------------------------------------------- omegaHz
\* + written for the second *.
uflux_sum(u, Hz) ==
  Plus(Times(Subscript(u, TRUE, Inner, All), Scalar(Half)),
       Plus(Subscript(Hz, TRUE, Inner, DropLast), Subscript(Hz, TRUE, Inner, DropFirst)))

\* The velocity left out of the flux.
uflux_no_u(u, Hz) ==
  Times(Scalar(Half),
        Plus(Subscript(Hz, TRUE, Inner, DropLast), Subscript(Hz, TRUE, Inner, DropFirst)))

uflux(u, Hz) ==
  Times(Times(Subscript(u, TRUE, Inner, All), Scalar(Half)),
        Plus(Subscript(Hz, TRUE, Inner, DropLast), Subscript(Hz, TRUE, Inner, DropFirst)))

vflux_sum(v, Hz) ==
  Plus(Times(Subscript(v, TRUE, All, Inner), Scalar(Half)),
       Plus(Subscript(Hz, TRUE, DropLast, Inner), Subscript(Hz, TRUE, DropFirst, Inner)))

vflux(v, Hz) ==
  Times(Times(Subscript(v, TRUE, All, Inner), Scalar(Half)),
        Plus(Subscript(Hz, TRUE, DropLast, Inner), Subscript(Hz, TRUE, DropFirst, Inner)))

omegaHz_sigma(uf, vf, pm, pn, Hz_t) ==
  Minus(Minus(Negate(Hz_t),
              Times(diff(uf, -1), Subscript(pm, FALSE, Inner, Inner))),
        Times(diff(vf, -2), Subscript(pn, FALSE, Inner, Inner)))

\* The cumulative sum taken along the first axis instead of the third from
\* last.
omegaHz_axis0(u, v, pm, pn, Hz, Hz_t) ==
  LET uf == uflux(u, Hz)
      vf == vflux(v, Hz)
  IN IF IsErr(uf) THEN uf
     ELSE IF IsErr(vf) THEN vf
     ELSE cumsum(omegaHz_sigma(uf, vf, pm, pn, Hz_t), 0)

\* The statements run in order: the first one that raises ends the call.
omegaHz(u, v, pm, pn, Hz, Hz_t) ==
  LET uf == uflux(u, Hz)
      vf == vflux(v, Hz)
  IN IF IsErr(uf) THEN uf
     ELSE IF IsErr(vf) THEN vf
     ELSE cumsum(omegaHz_sigma(uf, vf, pm, pn, Hz_t), -3)

Hz_t_default_one == Scalar(One)

\* def omegaHz(u, v, pm, pn, Hz, Hz_t=0): an omitted Hz_t takes the default.
Hz_t_default == Scalar(0)
Omitted == Raise("Omitted")
Arg(x) == IF x = Omitted THEN Hz_t_default ELSE x

\* ------------------------------------------------------------------ inputs
\* A whole-valued array whose elements differ from index to index.
Weight(idx) == LET r == Len(idx)
               IN (IF r >= 1 THEN idx[r] ELSE 0) + (IF r >= 2 THEN 3 * idx[r - 1] ELSE 0)
                  + (IF r >= 3 THEN 7 * idx[r - 2] ELSE 0) + (IF r >= 4 THEN 11 * idx[r - 3] ELSE 0)

Const(s, c) == Arr(s, [idx \in Indices(s) |-> Num(c)])
Ramp(s, c, m) == Arr(s, [idx \in Indices(s) |-> Num(c + (Weight(idx) % m))])

Leads == {<<l>> : l \in 1..MaxL} \cup {<<t, l>> : t \in 2..MaxT, l \in 1..MaxL}
Extents == 3..MaxN

\* The inputs a call starts from: sc names the kind of flow, U and H its
\* velocity and layer thickness.
Scenarios == {[sc |-> "still", U |-> 0, H |-> 1],
              [sc |-> "uniform", U |-> 1, H |-> 2],
              [sc |-> "uniform", U |-> 3, H |-> 1],
              [sc |-> "general", U |-> 1, H |-> 1],
              [sc |-> "general", U |-> -2, H |-> 2]}
HztArgs == {Omitted, Scalar(Num(1))}
SpikeVal == 5

VARIABLES u, v, pm, pn, Hz, Hz_t, second, pc, ret, ret2, retc, reshapes

vars == <<u, v, pm, pn, Hz, Hz_t, second, pc, ret, ret2, retc, reshapes>>

NoResult == Raise("NotCalled")
NoSecond == [u |-> NoResult, v |-> NoResult, Hz_t |-> NoResult, a |-> 0, b |-> 0]

InputHz(lead, Ny, Nx, sc, H) ==
  IF sc = "uniform" THEN Const(lead \o <<Ny, Nx>>, H) ELSE Ramp(lead \o <<Ny, Nx>>, H, 5)
InputU(lead, Ny, Nx, sc, U) ==
  IF sc = "still" THEN Const(lead \o <<Ny, Nx - 1>>, 0)
  ELSE IF sc = "uniform" THEN Const(lead \o <<Ny, Nx - 1>>, U)
  ELSE Ramp(lead \o <<Ny, Nx - 1>>, U, 4)
InputV(lead, Ny, Nx, sc, U) ==
  IF sc = "general" THEN Ramp(lead \o <<Ny - 1, Nx>>, U + 1, 3)
  ELSE Const(lead \o <<Ny - 1, Nx>>, 0)
InputPm(Ny, Nx, sc) == IF sc = "uniform" THEN Const(<<Ny, Nx>>, 0) ELSE Ramp(<<Ny, Nx>>, 1, 7)
InputPn(Ny, Nx, sc) == IF sc = "uniform" THEN Const(<<Ny, Nx>>, 0) ELSE Ramp(<<Ny, Nx>>, 2, 5)

InitInputs(lead, Ny, Nx, sc, U, H) ==
  /\ Hz = InputHz(lead, Ny, Nx, sc, H)
  /\ u = InputU(lead, Ny, Nx, sc, U)
  /\ v = InputV(lead, Ny, Nx, sc, U)
  /\ pm = InputPm(Ny, Nx, sc)
  /\ pn = InputPn(Ny, Nx, sc)

InitCalls ==
  /\ pc = "input"
  /\ ret = NoResult
  /\ ret2 = NoResult
  /\ retc = NoResult
  /\ reshapes = 0

\* One element of one input array set apart from its neighbours: the choices
\* for arrays of the given shapes (for 4D arrays, an element of u or Hz at
\* every time step and layer of one grid cell), and the array with the choice
\* applied.
NoSpike == [arg |-> "none", idx |-> <<>>]

Spikes(lead, Ny, Nx) ==
  IF Len(lead) = 1
  THEN {NoSpike}
         \cup {[arg |-> "u", idx |-> i] : i \in Indices(lead \o <<Ny, Nx - 1>>)}
         \cup {[arg |-> "v", idx |-> i] : i \in Indices(lead \o <<Ny - 1, Nx>>)}
         \cup {[arg |-> "Hz", idx |-> i] : i \in Indices(lead \o <<Ny, Nx>>)}
         \cup {[arg |-> "pm", idx |-> i] : i \in Indices(<<Ny, Nx>>)}
         \cup {[arg |-> "pn", idx |-> i] : i \in Indices(<<Ny, Nx>>)}
  ELSE {NoSpike}
         \cup {[arg |-> a, idx |-> i \o <<1, 1>>] : a \in {"u", "Hz"}, i \in Indices(lead)}

Spiked(a, name, sp) ==
  IF sp.arg = name THEN [a EXCEPT !.data[sp.idx] = Num(SpikeVal)] ELSE a

Init ==
  /\ \E lead \in Leads, Ny \in Extents, Nx \in Extents, s \in Scenarios, h \in HztArgs :
       \E sp \in IF s.sc = "general" /\ h # Omitted THEN Spikes(lead, Ny, Nx)
                  ELSE IF s.sc = "still" /\ h = Omitted
                  THEN {x \in Spikes(lead, Ny, Nx) : x.arg \notin {"u", "v"}}
                  ELSE {NoSpike} :
         /\ Hz_t = h
         /\ Hz = Spiked(InputHz(lead, Ny, Nx, s.sc, s.H), "Hz", sp)
         /\ u = Spiked(InputU(lead, Ny, Nx, s.sc, s.U), "u", sp)
         /\ v = Spiked(InputV(lead, Ny, Nx, s.sc, s.U), "v", sp)
         /\ pm = Spiked(InputPm(Ny, Nx, s.sc), "pm", sp)
         /\ pn = Spiked(InputPn(Ny, Nx, s.sc), "pn", sp)
  /\ second = NoSecond
  /\ InitCalls

\* o = omegaHz(u, v, pm, pn, Hz, Hz_t), or omegaHz(u, v, pm, pn, Hz) when Hz_t
\* is omitted.
Call ==
  /\ pc = "input"
  /\ ret' = omegaHz(u, v, pm, pn, Hz, Arg(Hz_t))
  /\ pc' = "done"
  /\ UNCHANGED <<u, v, pm, pn, Hz, Hz_t, second, ret2, retc, reshapes>>

Next == Call

Spec == Init /\ [][Next]_vars

\* ------------------------------------------- default against explicit Hz_t
\* The shapes of an Hz_t array that broadcasts to Hz's horizontal shape
\* (Ny, Nx).
HztShapes(Ny, Nx) == {<<Ny, Nx>>, <<1, Nx>>, <<Ny, 1>>, <<1, 1>>, <<Nx>>, <<1>>, <<>>}

\* After a call without Hz_t, the same call with an explicit all-zero Hz_t.
CallExplicit ==
  /\ pc = "done" /\ Hz_t = Omitted
  /\ \E s \in HztShapes(Hz.shape[Rank(Hz) - 1], Hz.shape[Rank(Hz)]) :
       /\ second' = [NoSecond EXCEPT !.Hz_t = Const(s, 0)]
       /\ ret2' = omegaHz(u, v, pm, pn, Hz, Const(s, 0))
  /\ pc' = "done2"
  /\ UNCHANGED <<u, v, pm, pn, Hz, Hz_t, ret, retc, reshapes>>

NextDefault == Call \/ CallExplicit

SpecDefault == Init /\ [][NextDefault]_vars

\* ---------------------------------------------------------------- linearity
CoefVals == {-1, 2}

\* a*x + b*y as the caller forms it, with numpy's arithmetic.
Combine(a, x, b, y) == Plus(Times(Scalar(Num(a)), x), Times(Scalar(Num(b)), y))

InitLin ==
  /\ \E lead \in Leads, Ny \in Extents, Nx \in Extents :
       /\ InitInputs(lead, Ny, Nx, "general", 1, 1)
       /\ \E a \in CoefVals, b \in CoefVals,
             h \in {Scalar(Num(3)), Ramp(<<Ny - 2, Nx - 2>>, 0, 3)} :
            second = [u |-> Ramp(lead \o <<Ny, Nx - 1>>, 2, 3),
                      v |-> Ramp(lead \o <<Ny - 1, Nx>>, 0, 5),
                      Hz_t |-> h, a |-> a, b |-> b]
  /\ Hz_t \in {Scalar(Num(1)), Scalar(Num(2))}
  /\ InitCalls

\* omegaHz(u2, v2, pm, pn, Hz, Hz_t2)
CallSecond ==
  /\ pc = "done" /\ second # NoSecond
  /\ ret2' = omegaHz(second.u, second.v, pm, pn, Hz, second.Hz_t)
  /\ pc' = "done2"
  /\ UNCHANGED <<u, v, pm, pn, Hz, Hz_t, second, ret, retc, reshapes>>

\* omegaHz(a*u1 + b*u2, a*v1 + b*v2, pm, pn, Hz, a*Hz_t1 + b*Hz_t2)
CallCombined ==
  /\ pc = "done2" /\ second # NoSecond
  /\ retc' = omegaHz(Combine(second.a, u, second.b, second.u),
                     Combine(second.a, v, second.b, second.v), pm, pn, Hz,
                     Combine(second.a, Hz_t, second.b, second.Hz_t))
  /\ pc' = "done3"
  /\ UNCHANGED <<u, v, pm, pn, Hz, Hz_t, second, ret, ret2, reshapes>>

NextLin == Call \/ CallSecond \/ CallCombined

SpecLin == InitLin /\ [][NextLin]_vars

\* ------------------------------------------------------- mismatched shapes
\* The shapes one change away from s: one axis given another length, the
\* leading axis dropped, or a leading axis added.
Reshapes(s) ==
  (UNION {{[s EXCEPT ![d] = n] : n \in {1, s[d] - 1, s[d] + 1} \ {0}} : d \in 1..Len(s)}
     \cup (IF Len(s) >= 1 THEN {Tail(s)} ELSE {})
     \cup {<<n>> \o s : n \in 1..2}) \ {s}

InitShapes ==
  /\ \E lead \in {l \in Leads : Len(l) = 1}, Ny \in Extents, Nx \in Extents :
        InitInputs(lead, Ny, Nx, "general", 1, 1)
  /\ Hz_t = Omitted
  /\ second = NoSecond
  /\ InitCalls

\* The caller passes an array of another shape for one argument.
ReshapeU ==
  /\ pc = "input" /\ reshapes < MaxReshapes
  /\ \E s \in Reshapes(u.shape) : u' = Ramp(s, 1, 4)
  /\ reshapes' = reshapes + 1
  /\ UNCHANGED <<v, pm, pn, Hz, Hz_t, second, pc, ret, ret2, retc>>

ReshapeV ==
  /\ pc = "input" /\ reshapes < MaxReshapes
  /\ \E s \in Reshapes(v.shape) : v' = Ramp(s, 2, 3)
  /\ reshapes' = reshapes + 1
  /\ UNCHANGED <<u, pm, pn, Hz, Hz_t, second, pc, ret, ret2, retc>>

ReshapeHz ==
  /\ pc = "input" /\ reshapes < MaxReshapes
  /\ \E s \in Reshapes(Hz.shape) : Hz' = Ramp(s, 1, 5)
  /\ reshapes' = reshapes + 1
  /\ UNCHANGED <<u, v, pm, pn, Hz_t, second, pc, ret, ret2, retc>>

ReshapePm ==
  /\ pc = "input" /\ reshapes < MaxReshapes
  /\ \E s \in Reshapes(pm.shape) : pm' = Ramp(s, 1, 7)
  /\ reshapes' = reshapes + 1
  /\ UNCHANGED <<u, v, pn, Hz, Hz_t, second, pc, ret, ret2, retc>>

ReshapePn ==
  /\ pc = "input" /\ reshapes < MaxReshapes
  /\ \E s \in Reshapes(pn.shape) : pn' = Ramp(s, 2, 5)
  /\ reshapes' = reshapes + 1
  /\ UNCHANGED <<u, v, pm, Hz, Hz_t, second, pc, ret, ret2, retc>>

NextShapes == ReshapeU \/ ReshapeV \/ ReshapeHz \/ ReshapePm \/ ReshapePn \/ Call

SpecShapes == InitShapes /\ [][NextShapes]_vars

\* ------------------------------------------------------------------ claims
Done == pc = "done"

\* Hz's extents: H(Hz).Ny rows, H(Hz).Nx columns, H(Hz).lead the axes before.
Ny_of(a) == a.shape[Rank(a) - 1]
Nx_of(a) == a.shape[Rank(a)]
Lead_of(a) == SubSeq(a.shape, 1, Rank(a) - 2)

AllZero(a) == \A idx \in DOMAIN a.data : a.data[idx] = 0
Uniform(a) == \A i1, i2 \in DOMAIN a.data : a.data[i1] = a.data[i2]

\* The divergence term of layer l at the interior cell (j, i), written out
\* element by element.
UfluxAt(l, j, i) ==
  FMul(FMul(u.data[<<l, j + 1, i>>], Half),
       Hz.data[<<l, j + 1, i>>] + Hz.data[<<l, j + 1, i + 1>>])
VfluxAt(l, j, i) ==
  FMul(FMul(v.data[<<l, j, i + 1>>], Half),
       Hz.data[<<l, j, i + 1>>] + Hz.data[<<l, j + 1, i + 1>>])
TermAt(l, j, i) ==
  0 - Arg(Hz_t).data[<<>>]
    - FMul(UfluxAt(l, j, i + 1) - UfluxAt(l, j, i), pm.data[<<j + 1, i + 1>>])
    - FMul(VfluxAt(l, j + 1, i) - VfluxAt(l, j, i), pn.data[<<j + 1, i + 1>>])
RECURSIVE SumTerms(_, _, _)
SumTerms(k, j, i) == IF k = 0 THEN TermAt(0, j, i) ELSE SumTerms(k - 1, j, i) + TermAt(k, j, i)

\* C1: for 3D u, v, Hz, 2D pm, pn and scalar Hz_t, element (k, j, i) of the
\* result is the sum over the layers l = 0..k of
\* -Hz_t - (uflux[l,j,i+1] - uflux[l,j,i]) * pm[j+1,i+1]
\*       - (vflux[l,j+1,i] - vflux[l,j,i]) * pn[j+1,i+1],
\* for every layer k and every interior cell 0 <= j < Ny-2, 0 <= i < Nx-2.
C1_ElementFormula ==
  (Done /\ Rank(Hz) = 3) =>
    /\ IsArr(ret)
    /\ \A k \in 0..(Hz.shape[1] - 1), j \in 0..(Ny_of(Hz) - 3), i \in 0..(Nx_of(Hz) - 3) :
         /\ <<k, j, i>> \in DOMAIN ret.data
         /\ ret.data[<<k, j, i>>] = SumTerms(k, j, i)

\* A 3D call has returned, with more than one layer, a non-zero Hz_t and
\* velocities that vary, so that the sum has several non-zero terms.
C1_Witness ==
  /\ Done /\ Rank(Hz) = 3 /\ Hz.shape[1] >= 2 /\ IsArr(ret)
  /\ Hz_t # Omitted /\ ~Uniform(u) /\ ~Uniform(v) /\ ~Uniform(Hz)
  /\ \E idx \in DOMAIN ret.data : idx[1] = 1 /\ ret.data[idx] # 0

C7_ZeroFlow ==
  (Done /\ AllZero(u) /\ AllZero(v) /\ AllZero(Arg(Hz_t))) =>
    (IsArr(ret) /\ AllZero(ret))

C7_Witness ==
  /\ Done /\ AllZero(u) /\ AllZero(v) /\ AllZero(Arg(Hz_t))
  /\ ~Uniform(Hz) /\ ~Uniform(pm) /\ ~Uniform(pn)
  /\ IsArr(ret) /\ DOMAIN ret.data # {}

\* C8 as stated: the result is zero at the surface, the last index of the
\* layer axis, in every interior column.
C8_SurfaceZero ==
  Done => /\ IsArr(ret)
          /\ \A idx \in DOMAIN ret.data :
               idx[Rank(ret) - 2] = ret.shape[Rank(ret) - 2] - 1 => ret.data[idx] = 0

\* C9: for u = U everywhere, v = 0, Hz = H everywhere, pm = pn = 0 and the
\* default Hz_t, every element of the result is zero.
C9_UniformFlow ==
  (/\ Done /\ Hz_t = Omitted
   /\ Uniform(u) /\ AllZero(v) /\ Uniform(Hz) /\ AllZero(pm) /\ AllZero(pn)) =>
    (IsArr(ret) /\ AllZero(ret))

C9_Witness ==
  /\ Done /\ Hz_t = Omitted
  /\ Uniform(u) /\ ~AllZero(u) /\ AllZero(v) /\ Uniform(Hz) /\ ~AllZero(Hz)
  /\ AllZero(pm) /\ AllZero(pn)
  /\ IsArr(ret) /\ DOMAIN ret.data # {}

\* a[t] of an array with a leading time axis.
TimeSlice(a, t) == Arr(Tail(a.shape), [idx \in Indices(Tail(a.shape)) |-> a.data[<<t>> \o idx]])

\* The position of the layer axis (third from last) and a with every element
\* of a layer above k overwritten by x.
LayerPos(a) == Rank(a) - 2
MaskAbove(a, k, x) == Arr(a.shape, [idx \in Indices(a.shape) |-> IF idx[LayerPos(a)] > k THEN x ELSE a.data[idx]])

\* C10: for 4D u, v, Hz (time, layer, y, x) the result's slice at every time
\* index t is omegaHz of the 3D slices u[t], v[t], Hz[t]; and the result at
\* layer k stays the same when the inputs at the layers above k are replaced.
C10_BatchIndependence ==
  Done =>
    /\ IsArr(ret)
    /\ Rank(Hz) = 4 =>
         \A t \in 0..(Hz.shape[1] - 1) :
           TimeSlice(ret, t) = omegaHz(TimeSlice(u, t), TimeSlice(v, t), pm, pn,
                                       TimeSlice(Hz, t), Arg(Hz_t))
    /\ \A k \in 0..(Hz.shape[LayerPos(Hz)] - 2) :
         LET r == omegaHz(MaskAbove(u, k, Num(7)), MaskAbove(v, k, Num(7)), pm, pn,
                          MaskAbove(Hz, k, Num(9)), Arg(Hz_t))
         IN /\ IsArr(r)
            /\ \A idx \in DOMAIN ret.data :
                 idx[LayerPos(ret)] <= k => r.data[idx] = ret.data[idx]

\* A 4D call with two time steps and two layers has returned, and its two
\* time slices differ.
C10_Witness ==
  /\ Done /\ IsArr(ret) /\ Rank(Hz) = 4 /\ Hz.shape[1] >= 2 /\ Hz.shape[2] >= 2
  /\ TimeSlice(ret, 0) # TimeSlice(ret, 1)
  /\ \E idx \in DOMAIN ret.data : idx[2] = 0 /\ ret.data[idx] # 0

\* C4: omegaHz(a*u1 + b*u2, a*v1 + b*v2, pm, pn, Hz, a*Hz_t1 + b*Hz_t2) equals
\* a*omegaHz(u1, v1, pm, pn, Hz, Hz_t1) + b*omegaHz(u2, v2, pm, pn, Hz, Hz_t2)
\* at every element, for fixed Hz, pm, pn.
C4_Linearity ==
  pc = "done3" =>
    /\ IsArr(ret) /\ IsArr(ret2) /\ IsArr(retc)
    /\ retc = Combine(second.a, ret, second.b, ret2)

\* The three calls have returned, the two results differ and are not zero,
\* and the second Hz_t is an array.
C4_Witness ==
  /\ pc = "done3" /\ IsArr(ret) /\ IsArr(ret2) /\ IsArr(retc)
  /\ ret # ret2 /\ ~AllZero(ret) /\ ~AllZero(ret2) /\ ~AllZero(retc)
  /\ Rank(second.Hz_t) = 2 /\ second.a = -1 /\ second.b = 2

\* The arguments' shapes agree with the data model: Hz is (..., Ny, Nx), u is
\* (..., Ny, Nx-1), v is (..., Ny-1, Nx) with the same leading axes, and pm
\* and pn are (Ny, Nx).
Consistent ==
  /\ Rank(Hz) >= 2
  /\ u.shape = Lead_of(Hz) \o <<Ny_of(Hz), Nx_of(Hz) - 1>>
  /\ v.shape = Lead_of(Hz) \o <<Ny_of(Hz) - 1, Nx_of(Hz)>>
  /\ pm.shape = <<Ny_of(Hz), Nx_of(Hz)>>
  /\ pn.shape = <<Ny_of(Hz), Nx_of(Hz)>>

InnerLen(n) == IF n >= 2 THEN n - 2 ELSE 0

\* No axis that takes part in an elementwise operation has length 1: not a
\* leading axis of u, v or Hz, not a horizontal axis of a sliced operand, and
\* not a horizontal axis of the differenced fluxes.
NoUnitAxis ==
  /\ \A a \in {u, v, Hz} : \A d \in 1..(Rank(a) - 2) : a.shape[d] # 1
  /\ InnerLen(Ny_of(u)) # 1 /\ Nx_of(u) # 1
  /\ Ny_of(v) # 1 /\ InnerLen(Nx_of(v)) # 1
  /\ InnerLen(Ny_of(Hz)) # 1 /\ InnerLen(Nx_of(Hz)) # 1
  /\ Ny_of(Hz) - 1 # 1 /\ Nx_of(Hz) - 1 # 1
  /\ \A a \in {pm, pn} : InnerLen(a.shape[1]) # 1 /\ InnerLen(a.shape[2]) # 1

SameRanks ==
  /\ Rank(u) = Rank(Hz) /\ Rank(v) = Rank(Hz) /\ Rank(Hz) >= 2
  /\ Rank(pm) = 2 /\ Rank(pn) = 2

C6_DefaultIsExplicitZero ==
  pc = "done2" => (IsArr(ret2) /\ ret2 = ret)

====
